---------------------------- MODULE Spec2Model ----------------------------
(***************************************************************************)
(* Model of src/app.py: the ProjectFinancingCalculator engine              *)
(* (calculate_emi, calculate_investment_growth, calculate_comparison,      *)
(* generate_year_wise_data) of the project financing calculator.           *)
(*                                                                         *)
(* Numbers.  The program computes in Python numbers (int and float).  The  *)
(* model computes in exact rational arithmetic: a number is a pair         *)
(* <<n, d>> with d > 0 and gcd(n, d) = 1, so two numbers are equal exactly *)
(* when their pairs are equal.  Rounding of the binary floating point      *)
(* format is not modelled, except for the range of math.pow: a power of    *)
(* 2^1024 or more raises OverflowError.  A raised Python exception is      *)
(* modelled as a return record whose field raised names the exception.     *)
(***************************************************************************)
EXTENDS Integers, Sequences, FiniteSets, TLC

(***************************************************************************)
(* Bounds of the explored inputs.                                          *)
(***************************************************************************)
\* largest project_cost (lakh) explored
MaxCost == 3
\* largest own_capital (lakh) explored
MaxCapital == 3
\* largest custom_capital_contribution (lakh) explored
MaxCustom == 3
\* largest loan_tenure (years) explored
MaxTenure == 2
\* a loan_tenure long enough for (1 + monthly_rate)^months to leave the
\* range of a double
LongTenure == 86
\* largest principal passed to a direct calculate_emi call, in lakh
MaxPrincipal == 3
\* a power base^e is explored only when e * Bits(base) <= PowBits, which
\* keeps every intermediate value of the model inside TLC's integers
PowBits == 12

(***************************************************************************)
(* Exact rational arithmetic (Python's +, -, *, /, min, max, math.pow).    *)
(***************************************************************************)
Abs(x) == IF x < 0 THEN 0 - x ELSE x

RECURSIVE GCD(_, _)
GCD(a, b) == IF b = 0 THEN a ELSE GCD(b, a % b)

Norm(n, d) ==
    LET s == IF d < 0 THEN 0 - 1 ELSE 1
        g == GCD(Abs(n), Abs(d))
    IN  <<(s * n) \div g, (s * d) \div g>>

R(i) == <<i, 1>>
Zero == R(0)
One == R(1)

RAdd(a, b) ==
    LET g == GCD(a[2], b[2])
    IN  Norm(a[1] * (b[2] \div g) + b[1] * (a[2] \div g), (a[2] \div g) * b[2])

RNeg(a) == <<0 - a[1], a[2]>>

RSub(a, b) == RAdd(a, RNeg(b))

RMul(a, b) ==
    IF a[1] = 0 \/ b[1] = 0 THEN Zero
    ELSE LET g1 == GCD(Abs(a[1]), b[2])
             g2 == GCD(Abs(b[1]), a[2])
         IN  <<(a[1] \div g1) * (b[1] \div g2), (a[2] \div g2) * (b[2] \div g1)>>

\* a / b for b # 0; the callers test b = Zero first (ZeroDivisionError)
RDiv(a, b) ==
    RMul(a, IF b[1] > 0 THEN <<b[2], b[1]>> ELSE <<0 - b[2], 0 - b[1]>>)

\* a < b and a <= b, by the sign of a - b
RLess(a, b) == IF a[2] = b[2] THEN a[1] < b[1] ELSE RSub(a, b)[1] < 0

RLeq(a, b) == IF a[2] = b[2] THEN a[1] <= b[1] ELSE RSub(a, b)[1] <= 0

\* Python's max(a, b) and min(a, b): the first argument wins a tie
RMax(a, b) == IF RLess(a, b) THEN b ELSE a

RMin(a, b) == IF RLess(b, a) THEN b ELSE a

\* b^e by repeated squaring; b^0 = 1 also for b = 0, as math.pow
RECURSIVE IPow(_, _)
IPow(b, e) ==
    IF e = 0 THEN 1
    ELSE IF e % 2 = 0 THEN LET h == IPow(b, e \div 2) IN h * h
    ELSE b * IPow(b, e - 1)

\* math.pow(b, e) for an integral exponent e; math.pow(x, 0) is 1, and a
\* negative exponent inverts the base (b # 0 then: see math_pow_error)
RPow(b, e) ==
    IF e >= 0 THEN <<IPow(b[1], e), IPow(b[2], e)>>
    ELSE Norm(IPow(b[2], 0 - e), IPow(b[1], 0 - e))

RECURSIVE Bits(_)
Bits(n) == IF n <= 1 THEN 0 ELSE 1 + Bits((n + 1) \div 2)

\* the power b^e stays inside the explored range
PowFits(b, e) == Abs(e) * (Bits(Abs(b[1])) + Bits(b[2])) <= PowBits

\* the integer part of log2(n), n >= 1
RECURSIVE FloorLog2(_)
FloorLog2(n) == IF n <= 1 THEN 0 ELSE 1 + FloorLog2(n \div 2)

\* math.pow computes in binary64: a result of 2^DoubleMaxExponent or more
\* is out of its range
DoubleMaxExponent == 1024

\* b^e is surely out of the range of a double: b >= 2^k with k * e >=
\* DoubleMaxExponent (exact when b is a power of two)
PowOverflows(b, e) ==
    /\ e > 0
    /\ b[1] > 0
    /\ e * (FloorLog2(b[1]) - Bits(b[2])) >= DoubleMaxExponent

\* the exception math.pow(b, e) raises, "none" when it returns
math_pow_error(b, e) ==
    IF b = Zero /\ e < 0 THEN "ValueError"
    ELSE IF PowOverflows(b, e) THEN "OverflowError"
    ELSE "none"

(***************************************************************************)
(* Results of a call: a returned value or a raised exception.              *)
(***************************************************************************)
Returned(v) == [raised |-> "none", value |-> v]

\* the value of a raised call is never read
Raised(e) == [raised |-> e, value |-> Zero]

(***************************************************************************)
(* ProjectFinancingCalculator.calculate_emi.  The source multiplies        *)
(* principal * monthly_rate * pow and divides by (pow - 1); the model      *)
(* multiplies principal * monthly_rate by the quotient pow / (pow - 1),    *)
(* which is the same number in exact arithmetic and keeps the intermediate *)
(* product inside TLC's integers.                                          *)
(***************************************************************************)
\* calculate_emi whose zero-rate branch divides by the years, not the months
calculate_emi_per_year(principal, rate, tenure_years) ==
    IF principal = Zero THEN Returned(Zero)
    ELSE
      LET monthly_rate == RDiv(rate, R(12 * 100))
          months == tenure_years * 12
      IN  IF rate = Zero \/ monthly_rate = Zero
          THEN IF months = 0 THEN Raised("ZeroDivisionError")
               ELSE Returned(RDiv(principal, R(tenure_years)))
          ELSE IF math_pow_error(RAdd(One, monthly_rate), months) # "none"
          THEN Raised(math_pow_error(RAdd(One, monthly_rate), months))
          ELSE
            LET growth == RPow(RAdd(One, monthly_rate), months)
                denominator == RSub(growth, One)
            IN  IF denominator = Zero THEN Raised("ZeroDivisionError")
                ELSE Returned(RMul(RMul(principal, monthly_rate),
                                   RDiv(growth, denominator)))

\* calculate_emi without the early return for a principal of 0
calculate_emi_no_zero_principal(principal, rate, tenure_years) ==
    LET monthly_rate == RDiv(rate, R(12 * 100))
        months == tenure_years * 12
    IN  IF rate = Zero \/ monthly_rate = Zero
        THEN IF months = 0 THEN Raised("ZeroDivisionError")
             ELSE Returned(RDiv(principal, R(months)))
        ELSE IF math_pow_error(RAdd(One, monthly_rate), months) # "none"
        THEN Raised(math_pow_error(RAdd(One, monthly_rate), months))
        ELSE
          LET growth == RPow(RAdd(One, monthly_rate), months)
              denominator == RSub(growth, One)
          IN  IF denominator = Zero THEN Raised("ZeroDivisionError")
              ELSE Returned(RMul(RMul(principal, monthly_rate),
                                 RDiv(growth, denominator)))

\* an installment whose denominator is the power itself, not the power less 1
calculate_emi_without_minus_one(principal, rate, tenure_years) ==
    IF principal = Zero THEN Returned(Zero)
    ELSE
      LET monthly_rate == RDiv(rate, R(12 * 100))
          months == tenure_years * 12
      IN  IF rate = Zero \/ monthly_rate = Zero
          THEN IF months = 0 THEN Raised("ZeroDivisionError")
               ELSE Returned(RDiv(principal, R(months)))
          ELSE IF math_pow_error(RAdd(One, monthly_rate), months) # "none"
          THEN Raised(math_pow_error(RAdd(One, monthly_rate), months))
          ELSE
            LET growth == RPow(RAdd(One, monthly_rate), months)
            IN  Returned(RMul(RMul(principal, monthly_rate),
                              RDiv(growth, growth)))

calculate_emi(principal, rate, tenure_years) ==
    IF principal = Zero THEN Returned(Zero)
    ELSE
      LET monthly_rate == RDiv(rate, R(12 * 100))
          months == tenure_years * 12
      IN  IF rate = Zero \/ monthly_rate = Zero
          THEN IF months = 0 THEN Raised("ZeroDivisionError")
               ELSE Returned(RDiv(principal, R(months)))
          ELSE IF math_pow_error(RAdd(One, monthly_rate), months) # "none"
          THEN Raised(math_pow_error(RAdd(One, monthly_rate), months))
          ELSE
            LET growth == RPow(RAdd(One, monthly_rate), months)
                denominator == RSub(growth, One)
            IN  IF denominator = Zero THEN Raised("ZeroDivisionError")
                ELSE Returned(RMul(RMul(principal, monthly_rate),
                                   RDiv(growth, denominator)))


(***************************************************************************)
(* ProjectFinancingCalculator.calculate_investment_growth                  *)
(***************************************************************************)
\* compounding periods per year, as the branches of calculate_investment_growth
periods_per_year(compounding) ==
    IF compounding = "daily" THEN 365
    ELSE IF compounding = "quarterly" THEN 4
    ELSE IF compounding = "monthly" THEN 12
    ELSE 1

\* a growth whose annual branch pays one period whatever the years
calculate_investment_growth_one_period(principal, annual_rate, years, compounding) ==
    LET rate == RDiv(annual_rate, R(100))
    IN  IF compounding = "daily"
        THEN RMul(principal, RPow(RAdd(One, RDiv(rate, R(365))), 365 * years))
        ELSE IF compounding = "quarterly"
        THEN RMul(principal, RPow(RAdd(One, RDiv(rate, R(4))), 4 * years))
        ELSE IF compounding = "monthly"
        THEN RMul(principal, RPow(RAdd(One, RDiv(rate, R(12))), 12 * years))
        ELSE RMul(principal, RAdd(One, rate))

\* the value calculate_investment_growth returns when math.pow returns
calculate_investment_growth(principal, annual_rate, years, compounding) ==
    LET rate == RDiv(annual_rate, R(100))
    IN  IF compounding = "daily"
        THEN RMul(principal, RPow(RAdd(One, RDiv(rate, R(365))), 365 * years))
        ELSE IF compounding = "quarterly"
        THEN RMul(principal, RPow(RAdd(One, RDiv(rate, R(4))), 4 * years))
        ELSE IF compounding = "monthly"
        THEN RMul(principal, RPow(RAdd(One, RDiv(rate, R(12))), 12 * years))
        ELSE RMul(principal, RPow(RAdd(One, rate), years))

\* a call of calculate_investment_growth: the exception of its math.pow, or
\* the value returned; no argument is tested before the power is taken
calculate_investment_growth_call(principal, annual_rate, years, compounding) ==
    LET k == periods_per_year(compounding)
        base == RAdd(One, RDiv(RDiv(annual_rate, R(100)), R(k)))
    IN  IF math_pow_error(base, k * years) # "none"
        THEN Raised(math_pow_error(base, k * years))
        ELSE Returned(calculate_investment_growth(principal, annual_rate, years,
                                                  compounding))

(***************************************************************************)
(* ProjectFinancingCalculator.__init__: the investment catalog.  Only the  *)
(* numeric and the compounding fields are kept; the descriptive strings    *)
(* (liquidity, tax_efficiency, notes) take no part in any calculation.     *)
(***************************************************************************)
InvestmentCatalog ==
    ("FD"             :> [default_return |-> <<7, 1>>,  compounding |-> "quarterly"]) @@
    ("Liquid Funds"   :> [default_return |-> <<27, 4>>, compounding |-> "daily"]) @@
    ("SGBs"           :> [default_return |-> <<5, 2>>,  compounding |-> "annual"]) @@
    ("Arbitrage Fund" :> [default_return |-> <<7, 1>>,  compounding |-> "daily"]) @@
    ("Debt Funds"     :> [default_return |-> <<15, 2>>, compounding |-> "daily"])

VARIABLES
    investment_options,  \* self.investment_options of the calculator object
    op,                  \* the operation that ran last
    inputs,              \* the inputs record handed to calculate_comparison
    comparison,          \* what calculate_comparison did: the results dictionary
                         \* it returned or the exception it raised, and the
                         \* calls it made on the way
    emi_call,            \* arguments and result of a direct calculate_emi call
    growth_call,         \* arguments and result of a direct
                         \* calculate_investment_growth call
    year_wise_data,      \* the rows of the table generate_year_wise_data returned
    widgets              \* the values of main()'s input widgets, when the
                         \* inputs record is the one main() builds

vars == <<investment_options, op, inputs, comparison, emi_call, growth_call,
          year_wise_data, widgets>>

\* tax factor (1 - inputs['tax_rate']/100)
tax_factor(inp) == RSub(One, RDiv(inp.tax_rate, R(100)))

\* the default of calculate_investment_growth's compounding parameter in
\* place of the catalog entry's
compounding_of_default(inp) == "quarterly"

compounding_of(inp) == investment_options[inp.investment_type].compounding

(***************************************************************************)
(* calculate_comparison, Option 1: use own capital + small loan.  Each     *)
(* local variable of the source is an operator of the values it is         *)
(* computed from; option1 chains them in the order of the source.          *)
(***************************************************************************)
\* the shortfall without the floor at 0
option1_loan_amount_unfloored(inp) == RSub(inp.project_cost, inp.own_capital)

option1_loan_amount_lakh(inp) == RMax(Zero, RSub(inp.project_cost, inp.own_capital))

option1_loan_amount_actual(loan_amount_lakh) == RMul(loan_amount_lakh, R(100000))

option1_total_payment(inp, emi) == RMul(RMul(emi, R(12)), R(inp.loan_tenure))

option1_total_interest(total_payment, loan_amount_actual) ==
    RSub(total_payment, loan_amount_actual)

option1_effective_interest(inp, total_interest) ==
    IF inp.loan_interest_deductible
    THEN RMul(total_interest, tax_factor(inp))
    ELSE total_interest

\* option 1 crediting itself the growth of the capital beyond the cost
option1_net_outflow_less_surplus_gain(inp, effective_interest_lakh) ==
    RSub(RAdd(inp.project_cost, effective_interest_lakh),
         RSub(calculate_investment_growth(
                RMax(Zero, RSub(inp.own_capital, inp.project_cost)),
                inp.investment_return, inp.loan_tenure, compounding_of(inp)),
              RMax(Zero, RSub(inp.own_capital, inp.project_cost))))

option1_net_outflow(inp, effective_interest_lakh) ==
    RAdd(inp.project_cost, effective_interest_lakh)

option1_total_investment_gross(inp, total_payment) ==
    RAdd(RDiv(total_payment, R(100000)), inp.own_capital)

option1_capital_used(inp) == inp.own_capital

option1(inp) ==
    LET loan_amount_lakh == option1_loan_amount_lakh(inp)
        loan_amount_actual == option1_loan_amount_actual(loan_amount_lakh)
        emi == calculate_emi(loan_amount_actual, inp.loan_rate, inp.loan_tenure)
        total_payment == option1_total_payment(inp, emi.value)
        total_interest == option1_total_interest(total_payment, loan_amount_actual)
        effective_interest == option1_effective_interest(inp, total_interest)
        total_interest_lakh == RDiv(total_interest, R(100000))
        effective_interest_lakh == RDiv(effective_interest, R(100000))
    IN  IF emi.raised # "none" THEN Raised(emi.raised)
        ELSE Returned(
          [ loan_amount |-> loan_amount_lakh,
            emi |-> emi.value,
            total_payment |-> total_payment,
            total_interest |-> total_interest_lakh,
            effective_interest |-> effective_interest_lakh,
            net_outflow |-> option1_net_outflow(inp, effective_interest_lakh),
            capital_used |-> option1_capital_used(inp),
            total_investment_gross |-> option1_total_investment_gross(inp, total_payment) ])

(***************************************************************************)
(* calculate_comparison, Option 2: invest own capital + take full loan     *)
(***************************************************************************)
\* option 2 borrowing only the shortfall, as option 1 does
option2_loan_amount_shortfall(inp) ==
    RMax(Zero, RSub(inp.project_cost, inp.own_capital))

option2_loan_amount_lakh(inp) == inp.project_cost

option2_loan_amount_actual(loan_amount_lakh) == RMul(loan_amount_lakh, R(100000))

option2_total_payment(inp, emi) == RMul(RMul(emi, R(12)), R(inp.loan_tenure))

option2_total_interest(total_payment, loan_amount_actual) ==
    RSub(total_payment, loan_amount_actual)

\* the tax shield applied whatever loan_interest_deductible says
option2_effective_interest_always_shielded(inp, total_interest) ==
    RMul(total_interest, tax_factor(inp))

option2_effective_interest(inp, total_interest) ==
    IF inp.loan_interest_deductible
    THEN RMul(total_interest, tax_factor(inp))
    ELSE total_interest

investment_maturity_value_option2(inp) ==
    calculate_investment_growth(inp.own_capital, inp.investment_return,
                                inp.loan_tenure, compounding_of(inp))

investment_gain_option2(inp, investment_maturity_value) ==
    RSub(investment_maturity_value, inp.own_capital)

post_tax_gain_option2(inp, investment_gain) == RMul(investment_gain, tax_factor(inp))

\* a net outflow that leaves the interest out
option2_net_outflow_without_interest(inp, effective_interest, post_tax_gain) ==
    RSub(inp.project_cost, post_tax_gain)

option2_net_outflow(inp, effective_interest, post_tax_gain) ==
    RSub(RAdd(inp.project_cost, RDiv(effective_interest, R(100000))), post_tax_gain)

option2_total_investment_gross(inp, total_payment) ==
    RAdd(RDiv(total_payment, R(100000)), inp.own_capital)

option2_capital_used(inp) == Zero

option2_capital_invested(inp) == inp.own_capital

option2(inp) ==
    LET loan_amount_lakh == option2_loan_amount_lakh(inp)
        loan_amount_actual == option2_loan_amount_actual(loan_amount_lakh)
        emi == calculate_emi(loan_amount_actual, inp.loan_rate, inp.loan_tenure)
        total_payment == option2_total_payment(inp, emi.value)
        total_interest == option2_total_interest(total_payment, loan_amount_actual)
        effective_interest == option2_effective_interest(inp, total_interest)
        investment_maturity_value == investment_maturity_value_option2(inp)
        investment_gain == investment_gain_option2(inp, investment_maturity_value)
        post_tax_gain == post_tax_gain_option2(inp, investment_gain)
    IN  IF emi.raised # "none" THEN Raised(emi.raised)
        ELSE Returned(
          [ loan_amount |-> loan_amount_lakh,
            emi |-> emi.value,
            total_payment |-> total_payment,
            total_interest |-> RDiv(total_interest, R(100000)),
            effective_interest |-> RDiv(effective_interest, R(100000)),
            investment_maturity |-> investment_maturity_value,
            investment_gain |-> investment_gain,
            post_tax_gain |-> post_tax_gain,
            net_outflow |-> option2_net_outflow(inp, effective_interest, post_tax_gain),
            capital_used |-> option2_capital_used(inp),
            capital_invested |-> option2_capital_invested(inp),
            total_investment_gross |-> option2_total_investment_gross(inp, total_payment) ])

(***************************************************************************)
(* calculate_comparison, Option 3: custom capital contribution + loan      *)
(***************************************************************************)
option3_capital_used(inp) == inp.custom_capital_contribution

\* option 3 borrowing the whole project cost whatever it contributes
option3_loan_amount_whole_cost(inp, capital_used) == inp.project_cost

option3_loan_amount_lakh(inp, capital_used) ==
    RMax(Zero, RSub(inp.project_cost, capital_used))

option3_loan_amount_actual(loan_amount_lakh) == RMul(loan_amount_lakh, R(100000))

option3_total_payment(inp, emi) == RMul(RMul(emi, R(12)), R(inp.loan_tenure))

option3_total_interest(total_payment, loan_amount_actual) ==
    RSub(total_payment, loan_amount_actual)

\* an effective interest that never applies the tax shield
option3_effective_interest_never_shielded(inp, total_interest) == total_interest

option3_effective_interest(inp, total_interest) ==
    IF inp.loan_interest_deductible
    THEN RMul(total_interest, tax_factor(inp))
    ELSE total_interest

option3_remaining_own_capital(inp, capital_used) == RSub(inp.own_capital, capital_used)

\* option 3 calling calculate_investment_growth without the compounding
\* argument, so that its default 'quarterly' applies
option3_investment_default_compounding(inp, remaining_own_capital) ==
    IF RLess(Zero, remaining_own_capital)
    THEN LET maturity == calculate_investment_growth(remaining_own_capital,
                             inp.investment_return, inp.loan_tenure,
                             "quarterly")
             gain == RSub(maturity, remaining_own_capital)
         IN  [ maturity_value |-> maturity,
               gain |-> gain,
               post_tax_gain |-> RMul(gain, tax_factor(inp)) ]
    ELSE [ maturity_value |-> Zero, gain |-> Zero, post_tax_gain |-> Zero ]

\* the three investment values of option 3: 0 unless capital remains
option3_investment(inp, remaining_own_capital) ==
    IF RLess(Zero, remaining_own_capital)
    THEN LET maturity == calculate_investment_growth(remaining_own_capital,
                             inp.investment_return, inp.loan_tenure,
                             compounding_of(inp))
             gain == RSub(maturity, remaining_own_capital)
         IN  [ maturity_value |-> maturity,
               gain |-> gain,
               post_tax_gain |-> RMul(gain, tax_factor(inp)) ]
    ELSE [ maturity_value |-> Zero, gain |-> Zero, post_tax_gain |-> Zero ]

\* a net outflow that counts the capital used directly as a cost
option3_net_outflow_counts_capital(inp, effective_interest_lakh, post_tax_gain) ==
    RAdd(RSub(RAdd(inp.project_cost, effective_interest_lakh), post_tax_gain),
         inp.custom_capital_contribution)

option3_net_outflow(inp, effective_interest_lakh, post_tax_gain) ==
    RSub(RAdd(inp.project_cost, effective_interest_lakh), post_tax_gain)

option3_total_investment_gross(inp, total_payment) ==
    RAdd(RDiv(total_payment, R(100000)), inp.own_capital)

option3(inp) ==
    LET capital_used == option3_capital_used(inp)
        loan_amount_lakh == option3_loan_amount_lakh(inp, capital_used)
        loan_amount_actual == option3_loan_amount_actual(loan_amount_lakh)
        emi == calculate_emi(loan_amount_actual, inp.loan_rate, inp.loan_tenure)
        total_payment == option3_total_payment(inp, emi.value)
        total_interest == option3_total_interest(total_payment, loan_amount_actual)
        effective_interest == option3_effective_interest(inp, total_interest)
        total_interest_lakh == RDiv(total_interest, R(100000))
        effective_interest_lakh == RDiv(effective_interest, R(100000))
        remaining_own_capital == option3_remaining_own_capital(inp, capital_used)
        investment == option3_investment(inp, remaining_own_capital)
    IN  IF emi.raised # "none" THEN Raised(emi.raised)
        ELSE Returned(
          [ capital_used |-> capital_used,
            loan_amount |-> loan_amount_lakh,
            emi |-> emi.value,
            total_payment |-> total_payment,
            total_interest |-> total_interest_lakh,
            effective_interest |-> effective_interest_lakh,
            remaining_own_capital_invested |-> remaining_own_capital,
            investment_maturity |-> investment.maturity_value,
            investment_gain |-> investment.gain,
            post_tax_gain |-> investment.post_tax_gain,
            net_outflow |-> option3_net_outflow(inp, effective_interest_lakh,
                                                investment.post_tax_gain),
            total_investment_gross |-> option3_total_investment_gross(inp, total_payment) ])

(***************************************************************************)
(* calculate_comparison: annualized rates, recommendation, prepayment      *)
(***************************************************************************)
effective_loan_rate_annual(inp) ==
    IF inp.loan_interest_deductible
    THEN RMul(inp.loan_rate, tax_factor(inp))
    ELSE inp.loan_rate

\* a minimum that overlooks option3
min_net_outflow_value_first_two(v) == RMin(v[1], v[2])

\* min(all_net_outflows.values()); v holds the values in insertion order
\* option1, option2, option3
min_net_outflow_value(v) == RMin(RMin(v[1], v[2]), v[3])

max_net_outflow_value(v) == RMax(RMax(v[1], v[2]), v[3])

\* the loop without its break: the last match wins
recommendation_last_match(v, min_value) ==
    IF v[3] = min_value THEN "option3"
    ELSE IF v[2] = min_value THEN "option2"
    ELSE IF v[1] = min_value THEN "option1"
    ELSE ""

\* the loop over all_net_outflows.items() that breaks at the first match
recommendation(v, min_value) ==
    IF v[1] = min_value THEN "option1"
    ELSE IF v[2] = min_value THEN "option2"
    ELSE IF v[3] = min_value THEN "option3"
    ELSE ""

savings_against_worst(max_value, min_value) == RSub(max_value, min_value)

prepayment_cost(inp) ==
    IF RLess(Zero, inp.prepayment_penalty_pct) /\ inp.loan_tenure > 0
    THEN RDiv(RMul(inp.project_cost, inp.prepayment_penalty_pct), R(100))
    ELSE Zero

\* results before any calculate_comparison has returned
NoResults == [recommendation |-> "unset"]

(***************************************************************************)
(* calculate_comparison: the results dictionary built from the three       *)
(* options' entries.  The display-only entry                               *)
(* effective_investment_return_annual is an n-th root (x ** (1/tenure)),   *)
(* which has no exact rational value; it is read by no calculation and is  *)
(* left out of the record.                                                 *)
(***************************************************************************)
results_dict(inp, o1, o2, o3) ==
    LET all_net_outflows == <<o1.net_outflow, o2.net_outflow, o3.net_outflow>>
        min_value == min_net_outflow_value(all_net_outflows)
        max_value == max_net_outflow_value(all_net_outflows)
    IN  [ option1 |-> o1,
          option2 |-> o2,
          option3 |-> o3,
          recommendation |-> recommendation(all_net_outflows, min_value),
          savings |-> savings_against_worst(max_value, min_value),
          interest_spread |-> RSub(inp.loan_rate, inp.investment_return),
          effective_loan_rate_annual |-> effective_loan_rate_annual(inp),
          prepayment_cost |-> prepayment_cost(inp) ]

\* the calls calculate_comparison makes, in the order of its statements:
\* the method called and the option whose block calls it
EmiCallFor(option) == [method |-> "calculate_emi", option |-> option]

GrowthCallFor(option) == [method |-> "calculate_investment_growth", option |-> option]

\* the recommendation is taken from the three net outflows after the blocks
RecommendationStep == [method |-> "recommendation", option |-> "all"]

\* option 2 calls calculate_investment_growth whatever own_capital is
option2_calls(inp) == <<EmiCallFor("option2"), GrowthCallFor("option2")>>

\* option 3 calls calculate_investment_growth only for a positive remainder
option3_growth_calls(inp) ==
    IF RLess(Zero, option3_remaining_own_capital(inp, option3_capital_used(inp)))
    THEN <<GrowthCallFor("option3")>>
    ELSE <<>>

calls_until_option1(inp) == <<EmiCallFor("option1")>>

calls_until_option2(inp) == calls_until_option1(inp) \o <<EmiCallFor("option2")>>

calls_until_option3(inp) ==
    calls_until_option1(inp) \o option2_calls(inp) \o <<EmiCallFor("option3")>>

calls_of_comparison(inp) ==
    calls_until_option3(inp) \o option3_growth_calls(inp) \o <<RecommendationStep>>

\* the first exception raised by one of the three calculate_emi calls leaves
\* calculate_comparison; otherwise the dictionary is returned
comparison_of(inp, r1, r2, r3) ==
    IF r1.raised # "none"
    THEN [raised |-> r1.raised, value |-> NoResults, calls |-> calls_until_option1(inp)]
    ELSE IF r2.raised # "none"
    THEN [raised |-> r2.raised, value |-> NoResults, calls |-> calls_until_option2(inp)]
    ELSE IF r3.raised # "none"
    THEN [raised |-> r3.raised, value |-> NoResults, calls |-> calls_until_option3(inp)]
    ELSE [raised |-> "none",
          value |-> results_dict(inp, r1.value, r2.value, r3.value),
          calls |-> calls_of_comparison(inp)]

\* calculate_comparison as a whole
calculate_comparison(inp) ==
    comparison_of(inp, option1(inp), option2(inp), option3(inp))

(***************************************************************************)
(* ProjectFinancingCalculator.generate_year_wise_data: one row per year    *)
(* 0 .. loan_tenure.  res is the results dictionary handed in.  The table  *)
(* (a DataFrame) is the sequence of its rows, a row a record of its        *)
(* columns.                                                                *)
(***************************************************************************)
option1_paid_cumulative(res, year) == RMul(RMul(res.option1.emi, R(12)), R(year))

option2_paid_cumulative(res, year) == RMul(RMul(res.option2.emi, R(12)), R(year))

option3_paid_cumulative(res, year) ==
    IF year > 0 THEN RMul(RMul(res.option3.emi, R(12)), R(year)) ELSE Zero

option1_loan_amount_actual_at_start(res) == RMul(res.option1.loan_amount, R(100000))

option2_loan_amount_actual_at_start(inp) == RMul(inp.project_cost, R(100000))

option3_loan_amount_actual_at_start(inp) ==
    RMul(RMax(Zero, RSub(inp.project_cost, inp.custom_capital_contribution)),
         R(100000))

\* the interest left in rupees, not converted to lakh
interest_paid_cumulative_in_rupees(paid_cumulative, loan_amount_actual_at_start) ==
    RMax(Zero, RSub(paid_cumulative,
                    RMin(paid_cumulative, loan_amount_actual_at_start)))

\* principal paid is min(paid, loan at start); what is paid beyond it is
\* interest, in lakh
interest_paid_cumulative(paid_cumulative, loan_amount_actual_at_start) ==
    RDiv(RMax(Zero, RSub(paid_cumulative,
                         RMin(paid_cumulative, loan_amount_actual_at_start))),
         R(100000))

effective_interest_cumulative(inp, interest_paid) ==
    IF inp.loan_interest_deductible
    THEN RMul(interest_paid, tax_factor(inp))
    ELSE interest_paid

\* an investment that has already grown for a year in the row of year 0
investment_value_option2_grown_at_start(inp, year) ==
    calculate_investment_growth(inp.own_capital, inp.investment_return,
                                year + 1, compounding_of(inp))

investment_value_option2(inp, year) ==
    IF year > 0
    THEN calculate_investment_growth(inp.own_capital, inp.investment_return,
                                     year, compounding_of(inp))
    ELSE inp.own_capital

investment_value_option3(inp, remaining_own_capital, year) ==
    IF year > 0 /\ RLess(Zero, remaining_own_capital)
    THEN calculate_investment_growth(remaining_own_capital, inp.investment_return,
                                     year, compounding_of(inp))
    ELSE remaining_own_capital

post_tax_gain_cumulative(inp, investment_gain) ==
    RMul(investment_gain, tax_factor(inp))

net_cost_cumulative(inp, effective_interest, post_tax_gain) ==
    RSub(RAdd(inp.project_cost, effective_interest), post_tax_gain)

\* the columns of one option in the row of a year: the interest paid so far,
\* the value of the investment, its gain, the gain after tax, the net cost
year_wise_columns(inp, interest_paid, invested, investment_value) ==
    LET investment_gain == RSub(investment_value, invested)
        post_tax_gain == post_tax_gain_cumulative(inp, investment_gain)
    IN  [ Interest_Paid |-> interest_paid,
          Investment_Value |-> investment_value,
          Investment_Gain |-> investment_gain,
          Post_Tax_Gain |-> post_tax_gain,
          Net_Cost_Cumulative |->
            net_cost_cumulative(inp,
                                effective_interest_cumulative(inp, interest_paid),
                                post_tax_gain) ]

\* the row appended for a year; option 1 has no investment columns, its net
\* cost is project_cost plus effective interest
year_wise_row_of(year, c1, c2, c3) ==
    [ Year |-> year,
      Option1_Interest_Paid |-> c1.Interest_Paid,
      Option2_Interest_Paid |-> c2.Interest_Paid,
      Option3_Interest_Paid |-> c3.Interest_Paid,
      Investment_Value_Option2 |-> c2.Investment_Value,
      Investment_Value_Option3 |-> c3.Investment_Value,
      Investment_Gain_Option2 |-> c2.Investment_Gain,
      Investment_Gain_Option3 |-> c3.Investment_Gain,
      Post_Tax_Gain_Option2 |-> c2.Post_Tax_Gain,
      Post_Tax_Gain_Option3 |-> c3.Post_Tax_Gain,
      Option1_Net_Cost_Cumulative |-> c1.Net_Cost_Cumulative,
      Option2_Net_Cost_Cumulative |-> c2.Net_Cost_Cumulative,
      Option3_Net_Cost_Cumulative |-> c3.Net_Cost_Cumulative ]

year_wise_row(inp, res, year) ==
    year_wise_row_of(year,
      year_wise_columns(inp,
        interest_paid_cumulative(option1_paid_cumulative(res, year),
                                 option1_loan_amount_actual_at_start(res)),
        Zero, Zero),
      year_wise_columns(inp,
        interest_paid_cumulative(option2_paid_cumulative(res, year),
                                 option2_loan_amount_actual_at_start(inp)),
        inp.own_capital,
        investment_value_option2(inp, year)),
      year_wise_columns(inp,
        interest_paid_cumulative(option3_paid_cumulative(res, year),
                                 option3_loan_amount_actual_at_start(inp)),
        RSub(inp.own_capital, inp.custom_capital_contribution),
        investment_value_option3(inp,
          RSub(inp.own_capital, inp.custom_capital_contribution), year)))

\* a loop over range(inputs['loan_tenure']): the last year is missing
generate_year_wise_data_without_last_year(inp, res) ==
    [i \in 1..inp.loan_tenure |-> year_wise_row(inp, res, i - 1)]

\* for year in range(inputs['loan_tenure'] + 1): data.append(row)
generate_year_wise_data(inp, res) ==
    [i \in 1..(inp.loan_tenure + 1) |-> year_wise_row(inp, res, i - 1)]

\* no table: generate_year_wise_data has not run
NoData == <<>>

(***************************************************************************)
(* The explored inputs.  Amounts are in lakh, rates in percent.            *)
(***************************************************************************)
ProjectCosts == {R(i) : i \in 0..MaxCost}

OwnCapitals == {R(i) : i \in 0..MaxCapital}

CustomContributions == {R(i) : i \in (0 - 1)..MaxCustom}

LoanRates == {R(0), R(1200)}

Tenures == 0..MaxTenure \cup {LongTenure}

TaxRates == {R(0), R(30), R(100)}

InvestmentReturns == {R(0), R(400)}

PrepaymentPenalties == {R(0), R(2)}

\* the powers calculate_emi and calculate_investment_growth take for these
\* arguments stay inside the explored range
EmiInRange(rate, tenure_years) ==
    \/ PowFits(RAdd(One, RDiv(rate, R(1200))), tenure_years * 12)
    \/ PowOverflows(RAdd(One, RDiv(rate, R(1200))), tenure_years * 12)

GrowthInRange(annual_rate, years, compounding) ==
    LET k == periods_per_year(compounding)
    IN  PowFits(RAdd(One, RDiv(annual_rate, R(100 * k))), k * years)

InputRecords ==
    { inp \in [ project_cost : ProjectCosts,
                own_capital : OwnCapitals,
                custom_capital_contribution : CustomContributions,
                loan_rate : LoanRates,
                loan_tenure : Tenures,
                loan_interest_deductible : BOOLEAN,
                tax_rate : TaxRates,
                investment_type : DOMAIN InvestmentCatalog,
                investment_return : InvestmentReturns,
                prepayment_penalty_pct : PrepaymentPenalties ] :
        /\ EmiInRange(inp.loan_rate, inp.loan_tenure)
        /\ inp.loan_tenure = LongTenure =>
             PowOverflows(RAdd(One, RDiv(inp.loan_rate, R(1200))),
                          inp.loan_tenure * 12)
        /\ GrowthInRange(inp.investment_return, inp.loan_tenure,
                         InvestmentCatalog[inp.investment_type].compounding) }

\* a project cost whose full loan is 2^24 - 1 rupees, the denominator of
\* the annuity formula at a monthly rate of 1 over 24 months: the
\* installment of that loan over two years at interest is 2^24 rupees, so
\* that a two-year loan at interest can be explored
AnnuityCost == RDiv(R(IPow(2, 24) - 1), R(100000))

AnnuityTenures == {1, 2}

\* inputs records with that project cost, borrowed in full or not at all,
\* at a loan rate of 1200 and a tax rate that leaves the interest whole
\* or takes it whole; own capital of that size is invested without return
AnnuityInputRecords ==
    { inp \in [ project_cost : {AnnuityCost},
                own_capital : {Zero, AnnuityCost},
                custom_capital_contribution : {Zero, AnnuityCost},
                loan_rate : {R(1200)},
                loan_tenure : AnnuityTenures,
                loan_interest_deductible : BOOLEAN,
                tax_rate : {R(0), R(100)},
                investment_type : DOMAIN InvestmentCatalog,
                investment_return : InvestmentReturns,
                prepayment_penalty_pct : PrepaymentPenalties ] :
        /\ RLeq(inp.custom_capital_contribution, inp.own_capital)
        /\ inp.own_capital = Zero \/ inp.investment_return = Zero
        /\ GrowthInRange(inp.investment_return, inp.loan_tenure,
                         InvestmentCatalog[inp.investment_type].compounding) }

\* no inputs record: the run calls calculate_emi directly
NoInputs == [investment_type |-> "unset"]

\* principals of the direct calculate_emi calls, in steps of a quarter lakh
EmiPrincipals == {R(25000 * i) : i \in 0..(4 * MaxPrincipal)}

EmiCalls ==
    { c \in [ principal : EmiPrincipals, rate : LoanRates, tenure_years : Tenures,
              done : {FALSE}, ret : {Returned(Zero)} ] :
        EmiInRange(c.rate, c.tenure_years) }

NoCall == [done |-> FALSE]

(***************************************************************************)
(* main(): the values its widgets can hold, and the inputs dictionary it   *)
(* builds from them.  The keys loan_type, min_liquidity_target,            *)
(* custom_capital_input_type and custom_capital_percentage of the          *)
(* dictionary are read by no calculation and are left out of the record.   *)
(***************************************************************************)
\* number_input with min_value 0.1
WidgetProjectCosts == {c \in ProjectCosts : RLeq(RDiv(R(1), R(10)), c)}

\* number_input with min_value 0.0
WidgetOwnCapitals == OwnCapitals

\* number_input with min_value 0.1
WidgetLoanRates == {r \in LoanRates : RLeq(RDiv(R(1), R(10)), r)}

\* slider from 1 to 30
MinSliderTenure == 1

MaxSliderTenure == 30

WidgetTenures == {t \in Tenures : MinSliderTenure <= t /\ t <= MaxSliderTenure}

\* slider from 0 to 50
MaxSliderTaxRate == 50

WidgetTaxRates == {t \in TaxRates : RLeq(Zero, t) /\ RLeq(t, R(MaxSliderTaxRate))}

\* slider from 0 to 100 in steps of 5
WidgetPercentages == {0, 50, 100}

CustomCapitalInputTypes == {"Value", "Percentage of Own Capital"}

\* the 'Value' widget is a number_input between 0 and
\* min(project_cost, own_capital)
value_widget_max(w) == RMin(w.project_cost, w.own_capital)

\* the percentage of own capital without the cap at the project cost
main_custom_capital_contribution_uncapped(w) ==
    IF w.custom_capital_input_type = "Value"
    THEN w.custom_capital_value
    ELSE RMul(RDiv(R(w.custom_capital_percentage), R(100)), w.own_capital)

\* custom_capital_contribution as main() computes it
main_custom_capital_contribution(w) ==
    IF w.custom_capital_input_type = "Value"
    THEN w.custom_capital_value
    ELSE RMin(RMul(RDiv(R(w.custom_capital_percentage), R(100)), w.own_capital),
              w.project_cost)

main_inputs(w) ==
    [ project_cost |-> w.project_cost,
      own_capital |-> w.own_capital,
      custom_capital_contribution |-> main_custom_capital_contribution(w),
      loan_rate |-> w.loan_rate,
      loan_tenure |-> w.loan_tenure,
      loan_interest_deductible |-> w.loan_interest_deductible,
      tax_rate |-> w.tax_rate,
      investment_type |-> w.investment_type,
      investment_return |-> w.investment_return,
      prepayment_penalty_pct |-> w.prepayment_penalty_pct ]

WidgetStates ==
    { w \in [ project_cost : WidgetProjectCosts,
              own_capital : WidgetOwnCapitals,
              loan_rate : WidgetLoanRates,
              loan_tenure : WidgetTenures,
              loan_interest_deductible : BOOLEAN,
              prepayment_penalty_pct : PrepaymentPenalties,
              custom_capital_input_type : CustomCapitalInputTypes,
              custom_capital_value : {c \in CustomContributions : RLeq(Zero, c)},
              custom_capital_percentage : WidgetPercentages,
              investment_type : DOMAIN InvestmentCatalog,
              investment_return : InvestmentReturns,
              tax_rate : WidgetTaxRates ] :
        /\ IF w.custom_capital_input_type = "Value"
           THEN /\ RLeq(w.custom_capital_value, value_widget_max(w))
                /\ w.custom_capital_percentage = 0
           ELSE w.custom_capital_value = Zero
        /\ PowFits(RAdd(One, RDiv(w.loan_rate, R(1200))), w.loan_tenure * 12)
        /\ GrowthInRange(w.investment_return, w.loan_tenure,
                         InvestmentCatalog[w.investment_type].compounding) }

\* no widgets: the inputs record does not come from main()
NoWidgets == [custom_capital_input_type |-> "unset"]

\* the direct calculate_investment_growth calls: also negative arguments,
\* which nothing in the class keeps a caller from passing
GrowthPrincipals == {R(i) : i \in (0 - 1)..MaxPrincipal}

GrowthRates == {R(0 - 400), R(0), R(400), R(1200)}

GrowthYears == (0 - 1)..MaxTenure

Compoundings == {"daily", "monthly", "quarterly", "annual"}

GrowthCalls ==
    { c \in [ principal : GrowthPrincipals, annual_rate : GrowthRates,
              years : GrowthYears, compounding : Compoundings,
              done : {FALSE}, ret : {Returned(Zero)} ] :
        GrowthInRange(c.annual_rate, c.years, c.compounding) }

(***************************************************************************)
(* The state machine: a calculator is constructed, then either             *)
(* calculate_comparison runs on an inputs record and the year-wise table   *)
(* is generated from its results, or calculate_emi or                      *)
(* calculate_investment_growth is called directly.  An inputs record is    *)
(* either handed in by a caller of the class or built by main() from its   *)
(* widgets.                                                                *)
(***************************************************************************)
Init ==
    /\ investment_options = InvestmentCatalog
    /\ op = "__init__"
    /\ comparison = [raised |-> "none", value |-> NoResults, calls |-> <<>>]
    /\ year_wise_data = NoData
    /\ \/ /\ inputs \in InputRecords \cup AnnuityInputRecords
          /\ emi_call = NoCall
          /\ growth_call = NoCall
          /\ widgets = NoWidgets
       \/ /\ inputs = NoInputs /\ emi_call \in EmiCalls /\ growth_call = NoCall
          /\ widgets = NoWidgets
       \/ /\ inputs = NoInputs /\ emi_call = NoCall /\ growth_call \in GrowthCalls
          /\ widgets = NoWidgets
       \/ /\ inputs = NoInputs /\ emi_call = NoCall /\ growth_call = NoCall
          /\ widgets \in WidgetStates

\* main() up to its button: the inputs dictionary is built from the widgets
Main ==
    /\ widgets # NoWidgets
    /\ op = "__init__"
    /\ inputs' = main_inputs(widgets)
    /\ op' = "main"
    /\ UNCHANGED <<investment_options, comparison, emi_call, growth_call,
                   year_wise_data, widgets>>

\* a calculate_comparison that floors the contribution in the dictionary
\* it was handed
CalculateComparison_writing_inputs ==
    /\ inputs # NoInputs
    /\ comparison' = calculate_comparison(inputs)
    /\ op' = "calculate_comparison"
    /\ inputs' = [inputs EXCEPT !.custom_capital_contribution = RMax(Zero, @)]
    /\ UNCHANGED <<investment_options, emi_call, growth_call,
                   year_wise_data, widgets>>

CalculateComparison ==
    /\ inputs # NoInputs
    /\ comparison' = calculate_comparison(inputs)
    /\ op' = "calculate_comparison"
    /\ UNCHANGED <<investment_options, inputs, emi_call, growth_call,
                   year_wise_data, widgets>>

CalculateEmi ==
    /\ emi_call # NoCall
    /\ emi_call' = [emi_call EXCEPT
                      !.done = TRUE,
                      !.ret = calculate_emi(emi_call.principal, emi_call.rate,
                                            emi_call.tenure_years)]
    /\ op' = "calculate_emi"
    /\ UNCHANGED <<investment_options, inputs, comparison, growth_call,
                   year_wise_data, widgets>>

CalculateInvestmentGrowth ==
    /\ growth_call # NoCall
    /\ growth_call' = [growth_call EXCEPT
                         !.done = TRUE,
                         !.ret = calculate_investment_growth_call(
                                   growth_call.principal, growth_call.annual_rate,
                                   growth_call.years, growth_call.compounding)]
    /\ op' = "calculate_investment_growth"
    /\ UNCHANGED <<investment_options, inputs, comparison, emi_call,
                   year_wise_data, widgets>>

\* the table is generated from the inputs and the results dictionary that
\* calculate_comparison returned for them
GenerateYearWiseData ==
    /\ inputs # NoInputs
    /\ op = "calculate_comparison"
    /\ comparison.raised = "none"
    /\ year_wise_data' = generate_year_wise_data(inputs, comparison.value)
    /\ op' = "generate_year_wise_data"
    /\ UNCHANGED <<investment_options, inputs, comparison, emi_call, growth_call,
                   widgets>>

Next ==
    \/ Main
    \/ CalculateComparison
    \/ CalculateEmi
    \/ CalculateInvestmentGrowth
    \/ GenerateYearWiseData

Spec == Init /\ [][Next]_vars


(***************************************************************************)
(* Properties.  Compared holds in the states in which calculate_comparison *)
(* has returned a results dictionary for the inputs record.                *)
(***************************************************************************)
Compared == op = "calculate_comparison" /\ comparison.raised = "none"

\* the results dictionary calculate_comparison returned
results == comparison.value

EmiCalled == emi_call # NoCall /\ emi_call.done

\* an inputs record with a positive project cost and a positive tenure
PositiveCostAndTenure ==
    RLess(Zero, inputs.project_cost) /\ inputs.loan_tenure > 0

\* an inputs record as main() builds it: positive cost and tenure, and a
\* custom contribution between 0 and min(project_cost, own_capital)
UsualInputs ==
    /\ PositiveCostAndTenure
    /\ RLeq(Zero, inputs.custom_capital_contribution)
    /\ RLeq(inputs.custom_capital_contribution,
            RMin(inputs.project_cost, inputs.own_capital))

NetOutflows ==
    {results.option1.net_outflow, results.option2.net_outflow,
     results.option3.net_outflow}

\* the least and the greatest of a finite non-empty set of numbers
Least(S) == CHOOSE x \in S : \A y \in S : RLeq(x, y)

Greatest(S) == CHOOSE x \in S : \A y \in S : RLeq(y, x)

\* C1: every option's net_outflow is project_cost plus the option's
\* effective interest in lakh minus the option's post-tax investment gain
\* (no gain term for option1); the capital used directly is no term of it.
C1_NetOutflowFormula ==
    Compared =>
      /\ results.option1.net_outflow =
           RAdd(inputs.project_cost, results.option1.effective_interest)
      /\ results.option2.net_outflow =
           RSub(RAdd(inputs.project_cost, results.option2.effective_interest),
                results.option2.post_tax_gain)
      /\ results.option3.net_outflow =
           RSub(RAdd(inputs.project_cost, results.option3.effective_interest),
                results.option3.post_tax_gain)

\* a comparison in which all three options borrow at interest, options 2 and
\* 3 earn a gain and options 1 and 3 use capital directly
C1_Witness ==
    /\ Compared
    /\ UsualInputs
    /\ RLess(Zero, results.option1.capital_used)
    /\ RLess(Zero, results.option3.capital_used)
    /\ RLess(Zero, results.option1.effective_interest)
    /\ RLess(Zero, results.option3.effective_interest)
    /\ RLess(Zero, results.option2.post_tax_gain)
    /\ RLess(Zero, results.option3.post_tax_gain)

\* C2: savings is the greatest net_outflow minus the least, it is not
\* negative, and the recommended option's net_outflow is the least.
C2_RecommenderConsistency ==
    Compared =>
      /\ results.savings = RSub(Greatest(NetOutflows), Least(NetOutflows))
      /\ RLeq(Zero, results.savings)
      /\ results.recommendation \in {"option1", "option2", "option3"}
      /\ results[results.recommendation].net_outflow = Least(NetOutflows)

\* a comparison with three different net outflows, the third the least
C2_Witness ==
    /\ Compared
    /\ UsualInputs
    /\ Cardinality(NetOutflows) = 3
    /\ results.recommendation = "option3"
    /\ RLess(Zero, results.savings)

\* C3: among options sharing the least net_outflow the first in the order
\* option1, option2, option3 is recommended: option2 only when strictly
\* below option1, option3 only when strictly below option1 and option2.
C3_TieBreakOrder ==
    Compared =>
      /\ results.recommendation = "option2" =>
           RLess(results.option2.net_outflow, results.option1.net_outflow)
      /\ results.recommendation = "option3" =>
           /\ RLess(results.option3.net_outflow, results.option1.net_outflow)
           /\ RLess(results.option3.net_outflow, results.option2.net_outflow)
      /\ results.recommendation = "option1" <=>
           results.option1.net_outflow = Least(NetOutflows)
      /\ results.recommendation = "option2" <=>
           /\ results.option2.net_outflow = Least(NetOutflows)
           /\ results.option1.net_outflow # Least(NetOutflows)

\* option2 and option3 tie for the least net_outflow, below option1
C3_Witness ==
    /\ Compared
    /\ UsualInputs
    /\ results.option2.net_outflow = results.option3.net_outflow
    /\ RLess(results.option2.net_outflow, results.option1.net_outflow)
    /\ results.recommendation = "option2"

\* C4: option1 reports min(own_capital, project_cost) as the capital used
\* directly and max(0, project_cost - that amount) as its loan_amount
\* (stated for the inputs main() can build).
C4_Option1CapitalUsed ==
    (Compared /\ UsualInputs) =>
      LET own_used == RMin(inputs.own_capital, inputs.project_cost)
      IN  /\ results.option1.capital_used = own_used
          /\ results.option1.loan_amount =
               RMax(Zero, RSub(inputs.project_cost, own_used))

\* C5: option2 uses no own capital directly, borrows the whole project cost
\* and invests the whole own capital; option1 borrows only the shortfall.
C5_MaxLeverageSplit ==
    Compared =>
      /\ results.option2.capital_used = Zero
      /\ results.option2.loan_amount = inputs.project_cost
      /\ results.option2.capital_invested = inputs.own_capital
      /\ RLeq(inputs.own_capital, inputs.project_cost) =>
           results.option1.loan_amount =
             RSub(inputs.project_cost, inputs.own_capital)

\* the shape of the seed scenario: own capital covers part of the cost
C5_Witness ==
    /\ Compared
    /\ UsualInputs
    /\ RLess(Zero, inputs.own_capital)
    /\ RLess(inputs.own_capital, inputs.project_cost)
    /\ RLess(results.option1.loan_amount, results.option2.loan_amount)
    /\ RLess(Zero, results.option2.emi)

\* clamp(x, lo, hi)
Clamp(x, lo, hi) == RMax(lo, RMin(x, hi))

\* C6: option3 uses the contribution clamped to [0, min(own_capital,
\* project_cost)] for capital_used, loan_amount and the invested remainder
\* (stated for the inputs with a positive project cost and tenure).
C6_BalancedClamp ==
    (Compared /\ PositiveCostAndTenure) =>
      LET own_used == Clamp(inputs.custom_capital_contribution, Zero,
                            RMin(inputs.own_capital, inputs.project_cost))
      IN  /\ results.option3.capital_used = own_used
          /\ results.option3.loan_amount =
               RMax(Zero, RSub(inputs.project_cost, own_used))
          /\ results.option3.remaining_own_capital_invested =
               RSub(inputs.own_capital, own_used)

\* (1 - tax_rate/100)
TaxFactor == RSub(One, RDiv(inputs.tax_rate, R(100)))

\* C7: every option's effective interest is its gross interest times
\* (1 - tax_rate/100) when loan_interest_deductible, the gross interest
\* otherwise; the gain of options 2 and 3 is taxed whatever the flag.
C7_TaxShield ==
    Compared =>
      /\ \A o \in {"option1", "option2", "option3"} :
           results[o].effective_interest =
             IF inputs.loan_interest_deductible
             THEN RMul(results[o].total_interest, TaxFactor)
             ELSE results[o].total_interest
      /\ \A o \in {"option2", "option3"} :
           results[o].post_tax_gain = RMul(results[o].investment_gain, TaxFactor)

\* interest is not deductible, the tax rate is positive, and there are
\* interest and gains to tax
C7_Witness ==
    /\ Compared
    /\ UsualInputs
    /\ ~inputs.loan_interest_deductible
    /\ RLess(Zero, inputs.tax_rate)
    /\ \A o \in {"option1", "option2", "option3"} :
         RLess(Zero, results[o].total_interest)
    /\ \A o \in {"option2", "option3"} :
         /\ RLess(Zero, results[o].investment_gain)
         /\ RLess(results[o].post_tax_gain, results[o].investment_gain)

\* an option evaluation that returned an entry without loan and installment
ReturnsNoLoan(o) ==
    /\ o.raised = "none"
    /\ o.value.loan_amount = Zero
    /\ o.value.emi = Zero

\* C8: with own_capital >= project_cost option1 has loan_amount, emi,
\* total_payment and total_interest 0, whatever loan_rate and loan_tenure;
\* its calculate_emi call returns also for loan_tenure 0.
C8_ZeroLoan ==
    (inputs # NoInputs /\ RLeq(inputs.project_cost, inputs.own_capital)) =>
      /\ ReturnsNoLoan(option1(inputs))
      /\ Compared =>
           /\ results.option1.loan_amount = Zero
           /\ results.option1.emi = Zero
           /\ results.option1.total_payment = Zero
           /\ results.option1.total_interest = Zero

\* own capital exceeds a positive project cost, the loan rate is positive
\* and the full loan of option2 has a positive installment
C8_Witness ==
    /\ Compared
    /\ UsualInputs
    /\ RLess(Zero, inputs.project_cost)
    /\ RLess(inputs.project_cost, inputs.own_capital)
    /\ RLess(Zero, inputs.loan_rate)
    /\ RLess(Zero, results.option2.emi)
    /\ results.option1.emi = Zero

\* C9: calculate_emi(P, 0, T) is P / (T * 12) for T > 0, so at loan_rate 0
\* every option's total payment is its principal and its interest is 0.
C9_ZeroRate ==
    /\ (EmiCalled /\ emi_call.rate = Zero /\ emi_call.tenure_years > 0) =>
         emi_call.ret = Returned(RDiv(emi_call.principal, R(emi_call.tenure_years * 12)))
    /\ (Compared /\ inputs.loan_rate = Zero) =>
         \A o \in {"option1", "option2", "option3"} :
           /\ inputs.loan_tenure > 0 =>
                results[o].emi = RDiv(RMul(results[o].loan_amount, R(100000)),
                                      R(inputs.loan_tenure * 12))
           /\ results[o].total_payment = RMul(results[o].loan_amount, R(100000))
           /\ results[o].total_interest = Zero
           /\ results[o].effective_interest = Zero

\* a comparison at loan_rate 0 over two years in which every option borrows
C9_Witness ==
    /\ Compared
    /\ UsualInputs
    /\ inputs.loan_rate = Zero
    /\ inputs.loan_tenure = 2
    /\ \A o \in {"option1", "option2", "option3"} : RLess(Zero, results[o].emi)

\* a direct call calculate_emi(P, 0, T) with P > 0 and T > 1 has returned
C9_WitnessCall ==
    /\ EmiCalled
    /\ emi_call.rate = Zero
    /\ emi_call.tenure_years > 1
    /\ RLess(Zero, emi_call.principal)
    /\ emi_call.ret.raised = "none"

\* C10: calculate_emi with principal > 0 and tenure_years = 0 returns the
\* principal, for rate = 0 and for rate > 0.
C10_ZeroTenureReturnsPrincipal ==
    (EmiCalled /\ RLess(Zero, emi_call.principal) /\ emi_call.tenure_years = 0) =>
      emi_call.ret = Returned(emi_call.principal)

GrowthCalled == growth_call # NoCall /\ growth_call.done

C12_GrowthRejectsNegatives ==
    (/\ GrowthCalled
     /\ \/ RLess(growth_call.principal, Zero)
        \/ RLess(growth_call.annual_rate, Zero)
        \/ growth_call.years < 0) =>
      growth_call.ret.raised # "none"

\* the exceptions the arithmetic of an option evaluation raises
ArithmeticErrors == {"ZeroDivisionError", "OverflowError", "ValueError"}

\* an inputs record the validation rules refuse (the explored inputs have no
\* negative own_capital, loan_rate, investment_return or tax_rate)
InvalidInputs ==
    \/ RLeq(inputs.project_cost, Zero)
    \/ inputs.loan_tenure <= 0
    \/ RLess(inputs.own_capital, Zero)
    \/ RLess(inputs.loan_rate, Zero)
    \/ RLess(inputs.investment_return, Zero)
    \/ RLess(inputs.tax_rate, Zero)
    \/ RLess(inputs.custom_capital_contribution, Zero)
    \/ RLess(RMin(inputs.own_capital, inputs.project_cost),
             inputs.custom_capital_contribution)

\* C13: calculate_comparison on an invalid inputs record raises a validation
\* error before any option is evaluated: it returns no results and what it
\* raises is no exception of an option's arithmetic.
C13_FailFastValidation ==
    (op = "calculate_comparison" /\ InvalidInputs) =>
      /\ comparison.raised \notin {"none"} \cup ArithmeticErrors
      /\ comparison.value = NoResults

\* only the calculate_emi call of option2 overflows: option1 and option3
\* need no loan
OnlyOption2Overflows(r1, r2, r3) ==
    /\ r1.raised = "none"
    /\ r2.raised = "OverflowError"
    /\ r3.raised = "none"

\* C14: when the power overflows in the calculate_emi call of one option
\* only, calculate_comparison still returns a results dictionary.
C14_OverflowPerOption ==
    (/\ op = "calculate_comparison"
     /\ UsualInputs
     /\ OnlyOption2Overflows(option1(inputs), option2(inputs), option3(inputs))) =>
      /\ comparison.raised = "none"
      /\ comparison.value # NoResults

\* an option evaluation that returned an entry free of loan figures
ReturnsZeroLoan(o) ==
    /\ o.raised = "none"
    /\ o.value.loan_amount = Zero
    /\ o.value.emi = Zero
    /\ o.value.total_payment = Zero
    /\ o.value.total_interest = Zero
    /\ o.value.effective_interest = Zero

\* the recommended option's net_outflow is at most that of option o
TakesPart(o) ==
    RLeq(results[results.recommendation].net_outflow, results[o].net_outflow)

WithFlagDisabled ==
    calculate_comparison([inputs EXCEPT !.loan_interest_deductible = FALSE])

\* the flag is enabled at a positive tax rate and results were returned
FlagEnabled ==
    /\ Compared
    /\ inputs.loan_interest_deductible
    /\ RLess(Zero, inputs.tax_rate)

\* C16 as stated: with tax_rate > 0 every option's effective interest with
\* the deductible flag enabled is strictly less than with the flag disabled
\* (stated for the inputs main() can build, at a positive loan rate).
C16_TaxShieldStrict ==
    (FlagEnabled /\ UsualInputs /\ RLess(Zero, inputs.loan_rate)) =>
      \A o \in {"option1", "option2", "option3"} :
        RLess(results[o].effective_interest,
              WithFlagDisabled.value[o].effective_interest)

\* C16: with tax_rate > 0 an option's effective interest with the deductible
\* flag enabled is strictly less than with the flag disabled when the option
\* pays interest, and equal (both 0) when the option pays no interest.
C16_TaxShieldStrictWithInterest ==
    FlagEnabled =>
      /\ WithFlagDisabled.raised = "none"
      /\ \A o \in {"option1", "option2", "option3"} :
           IF RLess(Zero, results[o].total_interest)
           THEN RLess(results[o].effective_interest,
                      WithFlagDisabled.value[o].effective_interest)
           ELSE /\ results[o].effective_interest = Zero
                /\ WithFlagDisabled.value[o].effective_interest = Zero

\* the flag is enabled, option1 pays no interest, options 2 and 3 do
C16_Witness ==
    /\ FlagEnabled
    /\ UsualInputs
    /\ results.option1.total_interest = Zero
    /\ RLess(Zero, results.option2.total_interest)
    /\ RLess(Zero, results.option3.total_interest)
    /\ RLess(results.option3.effective_interest, results.option3.total_interest)

\* calculate_comparison on the inputs record at the loan rate r
AtLoanRate(r) == calculate_comparison([inputs EXCEPT !.loan_rate = r])

\* the loan rates explored below the loan rate of the inputs record
LowerLoanRates == {r \in LoanRates : RLess(r, inputs.loan_rate)}

\* the tax shield takes the whole interest
InterestFullyShielded ==
    inputs.loan_interest_deductible /\ inputs.tax_rate = R(100)

\* C17 as stated: of two inputs that differ only in loan_rate the one with
\* the higher rate has the strictly higher net_outflow for option2 and for
\* option3, when the option's loan_amount is positive (stated for a positive
\* project cost and tenure and a custom contribution within its range).
C17_MonotonicInLoanRate ==
    (Compared /\ UsualInputs) =>
      \A r \in LowerLoanRates :
        AtLoanRate(r).raised = "none" =>
          \A o \in {"option2", "option3"} :
            RLess(Zero, results[o].loan_amount) =>
              RLess(AtLoanRate(r).value[o].net_outflow, results[o].net_outflow)

\* C17: of two inputs that differ only in loan_rate the one with the higher
\* rate has the strictly higher net_outflow for option2 and for option3, when
\* the option's loan_amount is positive, unless the interest is deductible
\* at a tax_rate of 100: then the two net_outflows are equal.
C17_MonotonicUnlessFullyShielded ==
    Compared =>
      \A r \in LowerLoanRates :
        AtLoanRate(r).raised = "none" =>
          \A o \in {"option2", "option3"} :
            RLess(Zero, results[o].loan_amount) =>
              IF InterestFullyShielded
              THEN AtLoanRate(r).value[o].net_outflow = results[o].net_outflow
              ELSE RLess(AtLoanRate(r).value[o].net_outflow,
                         results[o].net_outflow)

\* a comparison at a positive loan rate in which options 2 and 3 borrow and
\* pay effective interest, so that the comparison at rate 0 is cheaper
C17_Witness ==
    /\ Compared
    /\ UsualInputs
    /\ LowerLoanRates # {}
    /\ ~InterestFullyShielded
    /\ RLess(Zero, results.option2.effective_interest)
    /\ RLess(Zero, results.option3.effective_interest)
    /\ RLess(results.option3.loan_amount, results.option2.loan_amount)

\* C18: with custom_capital_contribution = 0 option3's loan_amount, emi,
\* total_payment, total_interest, effective_interest, invested capital,
\* investment maturity, gain, post-tax gain and net_outflow equal option2's,
\* also when own_capital = 0.
C18_BalancedLowerBoundary ==
    (Compared /\ inputs.custom_capital_contribution = Zero) =>
      /\ results.option3.loan_amount = results.option2.loan_amount
      /\ results.option3.emi = results.option2.emi
      /\ results.option3.total_payment = results.option2.total_payment
      /\ results.option3.total_interest = results.option2.total_interest
      /\ results.option3.effective_interest = results.option2.effective_interest
      /\ results.option3.remaining_own_capital_invested =
           results.option2.capital_invested
      /\ results.option3.investment_maturity = results.option2.investment_maturity
      /\ results.option3.investment_gain = results.option2.investment_gain
      /\ results.option3.post_tax_gain = results.option2.post_tax_gain
      /\ results.option3.net_outflow = results.option2.net_outflow

\* a comparison with no custom contribution in which option3 borrows at
\* interest and earns a gain on the whole own capital, compounded annually
C18_Witness ==
    /\ Compared
    /\ UsualInputs
    /\ inputs.custom_capital_contribution = Zero
    /\ compounding_of(inputs) = "annual"
    /\ RLess(Zero, results.option3.total_interest)
    /\ RLess(Zero, results.option3.post_tax_gain)
    /\ RLess(results.option3.post_tax_gain, results.option3.investment_gain)

\* C19: with custom_capital_contribution = min(own_capital, project_cost)
\* option3's loan_amount, emi, total_interest, effective_interest and
\* net_outflow equal option1's and its investment gain is 0 as option1's,
\* for own_capital <= project_cost and for own_capital > project_cost.
C19_BalancedUpperBoundary ==
    (/\ Compared
     /\ UsualInputs
     /\ inputs.custom_capital_contribution =
          RMin(inputs.own_capital, inputs.project_cost)) =>
      /\ results.option3.loan_amount = results.option1.loan_amount
      /\ results.option3.emi = results.option1.emi
      /\ results.option3.total_interest = results.option1.total_interest
      /\ results.option3.effective_interest = results.option1.effective_interest
      /\ results.option3.investment_gain = Zero
      /\ results.option3.net_outflow = results.option1.net_outflow

\* generate_year_wise_data has returned the table for the inputs record and
\* the results of calculate_comparison
YearWise == op = "generate_year_wise_data"

\* the last row of the table
LastRow == year_wise_data[Len(year_wise_data)]

\* C20: the row with Year = loan_tenure has, for each option, the cumulative
\* interest paid equal to the option's total_interest, the post-tax gain
\* equal to the option's post_tax_gain and the cumulative net cost equal to
\* the option's net_outflow.
C20_YearWiseEndpoint ==
    YearWise =>
      \A i \in DOMAIN year_wise_data :
        year_wise_data[i].Year = inputs.loan_tenure =>
          LET row == year_wise_data[i]
          IN  /\ row.Option1_Interest_Paid = results.option1.total_interest
              /\ row.Option2_Interest_Paid = results.option2.total_interest
              /\ row.Option3_Interest_Paid = results.option3.total_interest
              /\ row.Post_Tax_Gain_Option2 = results.option2.post_tax_gain
              /\ row.Post_Tax_Gain_Option3 = results.option3.post_tax_gain
              /\ row.Option1_Net_Cost_Cumulative = results.option1.net_outflow
              /\ row.Option2_Net_Cost_Cumulative = results.option2.net_outflow
              /\ row.Option3_Net_Cost_Cumulative = results.option3.net_outflow

\* a table of two rows whose last row is the row of year loan_tenure = 1,
\* with interest paid by all three options and gains after tax for options
\* 2 and 3
C20_Witness ==
    /\ YearWise
    /\ UsualInputs
    /\ inputs.loan_tenure = 1
    /\ Len(year_wise_data) = 2
    /\ LastRow.Year = 1
    /\ RLess(Zero, LastRow.Option1_Interest_Paid)
    /\ RLess(Zero, LastRow.Option3_Interest_Paid)
    /\ RLess(Zero, LastRow.Post_Tax_Gain_Option2)
    /\ RLess(Zero, LastRow.Post_Tax_Gain_Option3)
    /\ RLess(inputs.project_cost, LastRow.Option1_Net_Cost_Cumulative)


\* C21: the table has loan_tenure + 1 rows, the i-th row is the row of year
\* i - 1 (Year runs 0, 1, ..., loan_tenure), and generating the table again
\* from the same inputs and results yields the same rows.
C21_YearRows ==
    /\ [](YearWise =>
            /\ Len(year_wise_data) = inputs.loan_tenure + 1
            /\ \A i \in 1..Len(year_wise_data) : year_wise_data[i].Year = i - 1)
    /\ [][(op' = "generate_year_wise_data" /\ year_wise_data # NoData) =>
            year_wise_data' = year_wise_data]_vars

\* a table of three rows over a tenure of two years
C21_Witness ==
    /\ YearWise
    /\ UsualInputs
    /\ inputs.loan_tenure = 2
    /\ Len(year_wise_data) = 3
    /\ LastRow.Year = 2

\* the first row of the table
FirstRow == year_wise_data[1]

ReplayedAt(y) == calculate_comparison([inputs EXCEPT !.loan_tenure = y])

\* the row holds the interest, the investment gain and the net cost of the
\* replayed comparison
RowReplays(row, replay) ==
    /\ replay.raised = "none"
    /\ row.Option1_Interest_Paid = replay.value.option1.total_interest
    /\ row.Option2_Interest_Paid = replay.value.option2.total_interest
    /\ row.Option3_Interest_Paid = replay.value.option3.total_interest
    /\ row.Investment_Gain_Option2 = replay.value.option2.investment_gain
    /\ row.Investment_Gain_Option3 = replay.value.option3.investment_gain
    /\ row.Option1_Net_Cost_Cumulative = replay.value.option1.net_outflow
    /\ row.Option2_Net_Cost_Cumulative = replay.value.option2.net_outflow
    /\ row.Option3_Net_Cost_Cumulative = replay.value.option3.net_outflow

\* C23: for every year y with 1 <= y <= loan_tenure the row of year y holds,
\* for every option, the interest, the investment gain and the net cost that
\* calculate_comparison returns for the inputs whose loan_tenure is y (stated
\* for a positive project cost and a custom contribution within its range).
C23_YearReplay ==
    (YearWise /\ UsualInputs) =>
      \A i \in DOMAIN year_wise_data :
        year_wise_data[i].Year >= 1 =>
          RowReplays(year_wise_data[i], ReplayedAt(year_wise_data[i].Year))


\* C24: calculate_comparison and generate_year_wise_data are read-only: a
\* step of either leaves the inputs record and the catalog as they were,
\* generate_year_wise_data leaves the results dictionary it was handed as
\* it was, the catalog equals its value after construction in every state,
\* and a calculate_comparison that runs after earlier calls returns for
\* the same inputs what the earlier call returned.
C24_ReadOnlyCalls ==
    /\ [](investment_options = InvestmentCatalog)
    /\ [][/\ op' \in {"calculate_comparison", "generate_year_wise_data"} =>
               /\ inputs' = inputs
               /\ investment_options' = investment_options
          /\ op' = "generate_year_wise_data" => comparison' = comparison
          /\ (op = "generate_year_wise_data" /\ op' = "calculate_comparison") =>
               comparison' = comparison]_vars

\* calculate_comparison has run again after the table was generated
C24_Witness ==
    /\ op = "calculate_comparison"
    /\ year_wise_data # NoData
    /\ UsualInputs
    /\ comparison.raised = "none"
    /\ investment_options = InvestmentCatalog


\* a direct calculate_emi call with a positive principal, rate and tenure
PositiveEmiCall ==
    /\ EmiCalled
    /\ RLess(Zero, emi_call.principal)
    /\ RLess(Zero, emi_call.rate)
    /\ emi_call.tenure_years > 0

\* r = rate / 1200 and n = tenure_years * 12 of the direct call
AnnuityRate == RDiv(emi_call.rate, R(1200))

AnnuityMonths == emi_call.tenure_years * 12

\* principal * r * (1+r)^n / ((1+r)^n - 1), the product taken as
\* (principal * r) * ((1+r)^n / ((1+r)^n - 1))
AnnuityValue ==
    RMul(RMul(emi_call.principal, AnnuityRate),
         RDiv(RPow(RAdd(One, AnnuityRate), AnnuityMonths),
              RSub(RPow(RAdd(One, AnnuityRate), AnnuityMonths), One)))

\* the call returned the annuity value and emi * n is at least the principal
ReturnsAnnuity ==
    /\ emi_call.ret = Returned(AnnuityValue)
    /\ RLeq(emi_call.principal, RMul(emi_call.ret.value, R(AnnuityMonths)))

\* the gross interest of every option of a comparison at a positive loan
\* rate and tenure is at least 0
GrossInterestNotNegative ==
    (Compared /\ RLess(Zero, inputs.loan_rate) /\ inputs.loan_tenure > 0) =>
      /\ RLeq(Zero, results.option1.total_interest)
      /\ RLeq(Zero, results.option2.total_interest)
      /\ RLeq(Zero, results.option3.total_interest)

PeriodsPerYear ==
    [daily |-> 365, monthly |-> 12, quarterly |-> 4, annual |-> 1]

\* principal * (1 + rate/k)^(k * years) with rate = annual_rate / 100
CompoundValue(principal, annual_rate, years, k) ==
    RMul(principal,
         RPow(RAdd(One, RDiv(RDiv(annual_rate, R(100)), R(k))), k * years))

\* the power of the formula has a value: not 0 to a negative exponent
CompoundDefined(annual_rate, years, k) ==
    RAdd(One, RDiv(RDiv(annual_rate, R(100)), R(k))) # Zero \/ k * years >= 0

\* k of the catalog entry selected by the inputs record
CatalogPeriods == PeriodsPerYear[InvestmentCatalog[inputs.investment_type].compounding]

OptionsCalled(method) ==
    LET IsMethod(c) == c.method = method
        made == SelectSeq(comparison.calls, IsMethod)
    IN  [i \in 1..Len(made) |-> made[i].option]

\* the growth calls an option is to make: one for positive idle capital
GrowthCallsDue ==
    (IF RLess(Zero, inputs.own_capital) THEN <<"option2">> ELSE <<>>) \o
    (IF RLess(Zero, RSub(inputs.own_capital, inputs.custom_capital_contribution))
     THEN <<"option3">> ELSE <<>>)

\* the position of an option in the fixed order
OptionRank == [option1 |-> 1, option2 |-> 2, option3 |-> 3, all |-> 4]

\* C27: during one calculate_comparison the engine is called in the order
\* option1, option2, option3: calculate_emi exactly once per option,
\* calculate_investment_growth exactly once for each option with positive
\* idle capital and not at all for an option whose idle capital is 0 (none
\* for option2 when own_capital = 0, none for option3 when
\* own_capital - custom_capital_contribution <= 0), and the recommendation
\* is taken after the calls of all three options.
C27_CallOrder ==
    (Compared /\ UsualInputs) =>
      /\ OptionsCalled("calculate_emi") = <<"option1", "option2", "option3">>
      /\ OptionsCalled("calculate_investment_growth") = GrowthCallsDue
      /\ \A i \in 1..(Len(comparison.calls) - 1) :
           OptionRank[comparison.calls[i].option] <=
             OptionRank[comparison.calls[i + 1].option]
      /\ comparison.calls[Len(comparison.calls)].method = "recommendation"


\* main() has built its inputs dictionary from the widgets
BuiltByMain == widgets # NoWidgets /\ op # "__init__"

\* C28: every inputs record that main() builds and hands to
\* calculate_comparison has 0 <= custom_capital_contribution <=
\* min(project_cost, own_capital) in both entry modes (the widget's value in
\* mode 'Value'; pct/100 * own_capital capped at project_cost, with pct in
\* 0..100, in mode 'Percentage of Own Capital'), project_cost > 0,
\* own_capital >= 0, loan_rate > 0, 1 <= loan_tenure <= 30 and
\* 0 <= tax_rate <= 50; calculate_comparison runs in main() only on such a
\* record, after it was built.
C28_MainInputs ==
    /\ BuiltByMain =>
         /\ RLeq(Zero, inputs.custom_capital_contribution)
         /\ RLeq(inputs.custom_capital_contribution,
                 RMin(inputs.project_cost, inputs.own_capital))
         /\ IF widgets.custom_capital_input_type = "Value"
            THEN inputs.custom_capital_contribution = widgets.custom_capital_value
            ELSE /\ widgets.custom_capital_percentage \in 0..100
                 /\ inputs.custom_capital_contribution =
                      RMin(RDiv(RMul(R(widgets.custom_capital_percentage),
                                     inputs.own_capital), R(100)),
                           inputs.project_cost)
         /\ RLess(Zero, inputs.project_cost)
         /\ RLeq(Zero, inputs.own_capital)
         /\ RLess(Zero, inputs.loan_rate)
         /\ 1 <= inputs.loan_tenure /\ inputs.loan_tenure <= 30
         /\ RLeq(Zero, inputs.tax_rate) /\ RLeq(inputs.tax_rate, R(50))
    /\ (widgets # NoWidgets /\ ~BuiltByMain) =>
         /\ inputs = NoInputs
         /\ comparison.calls = <<>>

\* the button was pressed on a record whose contribution, all of an own
\* capital above the project cost, was capped at the project cost
C28_Witness ==
    /\ BuiltByMain
    /\ Compared
    /\ widgets.custom_capital_input_type = "Percentage of Own Capital"
    /\ widgets.custom_capital_percentage = 100
    /\ RLess(inputs.project_cost, inputs.own_capital)
    /\ inputs.custom_capital_contribution = inputs.project_cost


\* C29: in exact arithmetic, for every valid input with
\* own_capital <= project_cost and 0 <= custom_capital_contribution <=
\* own_capital, option3's net_outflow lies between option1's and option2's,
\* and calculate_comparison does not recommend option3; for a valid input
\* option3 is recommended only when own_capital > project_cost.
C29_BalancedBetween ==
    /\ (/\ Compared
        /\ UsualInputs
        /\ RLeq(inputs.own_capital, inputs.project_cost)) =>
         /\ RLeq(RMin(results.option1.net_outflow, results.option2.net_outflow),
                 results.option3.net_outflow)
         /\ RLeq(results.option3.net_outflow,
                 RMax(results.option1.net_outflow, results.option2.net_outflow))
         /\ results.recommendation # "option3"
    /\ (Compared /\ UsualInputs /\ results.recommendation = "option3") =>
         RLess(inputs.project_cost, inputs.own_capital)

\* a contribution strictly inside (0, own_capital) whose net outflow is
\* strictly between the two others
C29_Witness ==
    /\ Compared
    /\ UsualInputs
    /\ RLeq(inputs.own_capital, inputs.project_cost)
    /\ RLess(Zero, inputs.custom_capital_contribution)
    /\ RLess(inputs.custom_capital_contribution, inputs.own_capital)
    /\ RLess(RMin(results.option1.net_outflow, results.option2.net_outflow),
             results.option3.net_outflow)
    /\ RLess(results.option3.net_outflow,
             RMax(results.option1.net_outflow, results.option2.net_outflow))


\* option 1's cumulative net cost of a row is the project cost plus the
\* interest of the row after the tax shield, without a gain
Option1RowWithoutGain(row) ==
    row.Option1_Net_Cost_Cumulative =
      RAdd(inputs.project_cost,
           IF inputs.loan_interest_deductible
           THEN RMul(row.Option1_Interest_Paid, TaxFactor)
           ELSE row.Option1_Interest_Paid)

\* C30: option1 never earns an investment gain: its net_outflow is
\* project_cost + effective interest for every input, in the results and in
\* every year row; so with own_capital >= project_cost its net_outflow is
\* project_cost exactly, whatever loan_rate, investment_return, tax_rate and
\* the surplus own_capital - project_cost are.
C30_OwnFundingEarnsNothing ==
    /\ Compared =>
         /\ results.option1.net_outflow =
              RAdd(inputs.project_cost, results.option1.effective_interest)
         /\ RLeq(inputs.project_cost, inputs.own_capital) =>
              results.option1.net_outflow = inputs.project_cost
    /\ YearWise =>
         \A i \in DOMAIN year_wise_data :
           /\ Option1RowWithoutGain(year_wise_data[i])
           /\ RLeq(inputs.project_cost, inputs.own_capital) =>
                year_wise_data[i].Option1_Net_Cost_Cumulative = inputs.project_cost

\* own capital above the project cost at a positive loan rate and return:
\* option 3 earns on the surplus, option 1 costs the project cost
C30_Witness ==
    /\ Compared
    /\ UsualInputs
    /\ RLess(inputs.project_cost, inputs.own_capital)
    /\ RLess(Zero, inputs.loan_rate)
    /\ RLess(Zero, inputs.investment_return)
    /\ RLess(Zero, results.option3.post_tax_gain)
    /\ results.option1.net_outflow = inputs.project_cost

=============================================================================
